---- MODULE Spec2Model ----
(***************************************************************************)
(* Sprint & capacity aggregation of ado-duedate-generator (src/main.go).   *)
(*                                                                         *)
(* Time: a time.Time value is a natural number of whole days since the    *)
(* zero instant time.Time{} (0001-01-01 00:00 UTC, a Monday).  0 is the    *)
(* zero value, for which IsZero() is true; a nil date pointer leaves the   *)
(* Go field at that zero value, so it is 0 as well.                        *)
(* Slices are sequences; Go's 0-based indices are kept, a[lo:hi] is        *)
(* SubSeq(a, lo+1, hi).                                                    *)
(***************************************************************************)
EXTENDS Integers, Sequences, FiniteSets, TLC

VARIABLES
    iterations,          \* upstream answer of GetTeamIterations
    now,                 \* time.Now() of the /sprints request
    allSprints,          \* /sprints: sprints built by the scan loop
    currentSprintIndex,  \* /sprints: index recorded by the scan loop
    sprintsResponse,     \* /sprints: what the handler answered
    sprintsJSON,         \* /sprints: the body as json.Encoder wrote it
    start,               \* calculateWorkingDays: argument start
    end,                 \* calculateWorkingDays: argument end
    daysOff,             \* calculateWorkingDays: argument daysOff
    workingDays,         \* calculateWorkingDays: returned value
    baseline,            \* calculateWorkingDays(start, end, nil) of the same range
    targetIteration,     \* /developers: the iteration resolved by name
    tasks,               \* /developers: AssignedTo of the tasks fetched
    developersResponse,  \* /developers: what the handler answered
    sprintName,          \* /user-stories, /developers: query parameter sprint
    lookupResponse,      \* /user-stories, /developers: outcome of the sprint lookup
    dateStr,             \* parseDate: argument
    parsed,              \* parseDate: returned (time, error)
    workItems,           \* /user-stories: work items GetWorkItems returned
    storiesResponse,     \* /user-stories: what the handler answered
    requests,            \* server: the local variables of each handler invocation
    selected,            \* page: value of sprintSelect
    userStoriesCache,    \* page: let userStoriesCache
    tasksCache,          \* page: keys of the Map tasksCache
    expandedStories,     \* page: the Set expandedStories
    rendered,            \* page: stories whose card is in storiesContainer
    open,                \* page: rendered stories whose tasks container is shown
    loading,             \* page: toggleLoading(true) hides storiesContainer
    storyFetches,        \* page: loadUserStories calls awaiting their fetch, per sprint
    taskFetches,         \* page: toggleTasks calls awaiting loadTasks
    storiesFailed        \* page: some /user-stories fetch was answered with an error

vars == <<iterations, now, allSprints, currentSprintIndex, sprintsResponse, sprintsJSON,
          start, end, daysOff, workingDays, baseline,
          targetIteration, tasks, developersResponse,
          sprintName, lookupResponse, dateStr, parsed, workItems, storiesResponse,
          requests, selected, userStoriesCache, tasksCache, expandedStories, rendered,
          open, loading, storyFetches, taskFetches, storiesFailed>>

sprintsVars == <<iterations, now, allSprints, currentSprintIndex, sprintsResponse, sprintsJSON>>
calcVars == <<start, end, daysOff, workingDays, baseline>>
developersVars == <<targetIteration, tasks, developersResponse>>
lookupVars == <<sprintName, lookupResponse>>
storiesVars == <<dateStr, parsed, workItems, storiesResponse>>
pageVars == <<selected, userStoriesCache, tasksCache, expandedStories, rendered, open,
              loading, storyFetches, taskFetches, storiesFailed>>
otherVars == <<requests, pageVars>>

----------------------------------------------------------------------------
(* Bounds *)

MaxTime == 3        \* instants 0..MaxTime in the /sprints scan model
MaxIter == 2        \* iterations upstream, scan model
MaxLong == 8        \* iterations upstream, window model
MaxDay == 7         \* days 0..MaxDay given to calculateWorkingDays
MaxOff == 2         \* exclusion intervals in one call
MaxTasks == 3       \* tasks of one /developers request
MaxDev == 2         \* distinct developer names
MaxName == 2        \* distinct sprint names in the lookup model
MaxLookup == 3      \* iterations upstream, lookup model
MaxItems == 2       \* work items of one /user-stories request
MaxReq == 2         \* handler invocations of the concurrent model
MaxStory == 1       \* user stories of one sprint, page model
MaxInFlight == 1    \* /user-stories fetches awaited at once for one sprint

(* Program constants *)

WindowBefore == 3       \* currentSprintIndex - 3
WindowAfter == 4        \* currentSprintIndex + 4
FallbackCount == 7      \* last 7 sprints
DefaultCapacityPerDay == 8

NoResponse == [status |-> "none"]
Panic == [status |-> "panic"]

----------------------------------------------------------------------------
(* time.Time *)

IsZero(t) == t = 0
After(a, b) == a > b
Before(a, b) == a < b
Equal(a, b) == a = b

\* Weekday() is neither time.Saturday nor time.Sunday; day 0 is a Monday.
IsWeekend_onlySaturday(t) == t % 7 = 5

IsWeekend(t) == t % 7 = 5 \/ t % 7 = 6

----------------------------------------------------------------------------
(* /sprints *)

\* An upstream iteration: Name = 0 is a nil Name pointer; Attributes is
\* FALSE for a nil Attributes pointer; a date of 0 is a nil date pointer.
Iteration(name, hasAttr, s, f) ==
    [Name |-> name, Attributes |-> hasAttr, StartDate |-> s, FinishDate |-> f]

\* The test of lines 245-246 on a sprint whose dates were copied.
IsCurrentSprint_inclusiveStart(sprint, t) ==
    /\ ~IsZero(sprint.StartDate) /\ ~IsZero(sprint.EndDate)
    /\ ~Before(t, sprint.StartDate) /\ Before(t, sprint.EndDate)

IsCurrentSprint(sprint, t) ==
    /\ ~IsZero(sprint.StartDate) /\ ~IsZero(sprint.EndDate)
    /\ After(t, sprint.StartDate) /\ Before(t, sprint.EndDate)

\* One pass of the loop body for iteration number i (0-based) on the
\* accumulated <<allSprints, currentSprintIndex>>.
ScanStep(acc, i, iteration, t) ==
    IF iteration.Name = 0
    THEN acc
    ELSE LET dated == [Name |-> iteration.Name,
                       StartDate |-> IF iteration.Attributes THEN iteration.StartDate ELSE 0,
                       EndDate |-> IF iteration.Attributes THEN iteration.FinishDate ELSE 0,
                       IsCurrent |-> FALSE]
             cur == iteration.Attributes /\ IsCurrentSprint(dated, t)
             sprint == [dated EXCEPT !.IsCurrent = cur]
         IN [allSprints |-> Append(acc.allSprints, sprint),
             currentSprintIndex |-> IF cur THEN i ELSE acc.currentSprintIndex]

RECURSIVE ScanLoop(_, _, _, _)
ScanLoop(its, i, acc, t) ==
    IF i >= Len(its)
    THEN acc
    ELSE ScanLoop(its, i + 1, ScanStep(acc, i, its[i + 1], t), t)

\* The slice expression s[lo:hi]; out-of-range bounds panic.
Slice(s, lo, hi) ==
    IF lo < 0 \/ hi > Len(s) \/ lo > hi
    THEN Panic
    ELSE [status |-> "ok", body |-> SubSeq(s, lo + 1, hi)]

FilterSprints_firstSeven(sprints, cur) ==
    IF cur >= 0
    THEN LET startIndex == IF cur - WindowBefore < 0 THEN 0 ELSE cur - WindowBefore
             endIndex == IF cur + WindowAfter > Len(sprints)
                         THEN Len(sprints) ELSE cur + WindowAfter
         IN Slice(sprints, startIndex, endIndex)
    ELSE IF Len(sprints) > FallbackCount
         THEN Slice(sprints, 0, FallbackCount)
         ELSE [status |-> "ok", body |-> sprints]

\* Lines 256-275: the window around currentSprintIndex, or the last seven.
FilterSprints(sprints, cur) ==
    IF cur >= 0
    THEN LET startIndex == IF cur - WindowBefore < 0 THEN 0 ELSE cur - WindowBefore
             endIndex == IF cur + WindowAfter > Len(sprints)
                         THEN Len(sprints) ELSE cur + WindowAfter
         IN Slice(sprints, startIndex, endIndex)
    ELSE IF Len(sprints) > FallbackCount
         THEN Slice(sprints, Len(sprints) - FallbackCount, Len(sprints))
         ELSE [status |-> "ok", body |-> sprints]

\* json.NewEncoder(w).Encode of the slice answered, lines 278 and 281: a
\* nil slice (allSprints never appended to) is written as null, an empty
\* non-nil slice as [], and a panic writes nothing.
EncodeSprints(response, isNil) ==
    IF response.status = "panic" THEN "aborted"
    ELSE IF isNil THEN "null"
    ELSE IF response.body = <<>> THEN "[]"
    ELSE "[...]"

\* Upstream grows by one iteration; named iterations carry their position
\* as name, so names are distinct.
AddIteration(named, hasAttr, s, f, max) ==
    /\ Len(iterations) < max
    /\ iterations' = Append(iterations,
           Iteration(IF named THEN Len(iterations) + 1 ELSE 0, hasAttr,
                     IF hasAttr THEN s ELSE 0, IF hasAttr THEN f ELSE 0))
    /\ allSprints' = <<>>
    /\ currentSprintIndex' = -1
    /\ sprintsResponse' = NoResponse
    /\ sprintsJSON' = "none"
    /\ UNCHANGED <<otherVars, now, calcVars, developersVars, lookupVars, storiesVars>>

\* The /sprints handler, lines 214-282.
HandleSprints ==
    /\ sprintsResponse = NoResponse
    /\ IF Len(iterations) > 0
       THEN LET acc == ScanLoop(iterations, 0,
                           [allSprints |-> <<>>, currentSprintIndex |-> -1], now)
            IN /\ allSprints' = acc.allSprints
               /\ currentSprintIndex' = acc.currentSprintIndex
               /\ sprintsResponse' = FilterSprints(acc.allSprints, acc.currentSprintIndex)
               /\ sprintsJSON' = EncodeSprints(
                      FilterSprints(acc.allSprints, acc.currentSprintIndex),
                      acc.allSprints = <<>>)
       ELSE /\ allSprints' = <<>>
            /\ currentSprintIndex' = -1
            /\ sprintsResponse' = [status |-> "ok", body |-> <<>>]
            /\ sprintsJSON' = EncodeSprints([status |-> "ok", body |-> <<>>], FALSE)
    /\ UNCHANGED <<otherVars, iterations, now, calcVars, developersVars, lookupVars, storiesVars>>

----------------------------------------------------------------------------
(* calculateWorkingDays *)

DayOff(s, e) == [Start |-> s, End |-> e]

\* Lines 163-164: current lies in the closed range of one DayOff.
InDayOff(current, off) ==
    /\ Equal(current, off.Start) \/ After(current, off.Start)
    /\ Equal(current, off.End) \/ Before(current, off.End)

\* Lines 162-168, from exclusion number k on: stops at the first match.
RECURSIVE IsDayOffFrom(_, _, _)
IsDayOffFrom(current, offs, k) ==
    IF k > Len(offs)
    THEN FALSE
    ELSE IF InDayOff(current, offs[k])
         THEN TRUE
         ELSE IsDayOffFrom(current, offs, k + 1)

IsDayOff_lastDecides(current, offs) ==
    Len(offs) > 0 /\ InDayOff(current, offs[Len(offs)])

IsDayOff(current, offs) == IsDayOffFrom(current, offs, 1)

\* Lines 157-174: the loop from current to end, in steps of 24 hours.
RECURSIVE WorkingDaysLoop(_, _, _, _)
WorkingDaysLoop(current, e, offs, n) ==
    IF Before(current, e) \/ Equal(current, e)
    THEN WorkingDaysLoop(current + 1, e, offs,
             IF ~IsWeekend(current) /\ ~IsDayOff(current, offs) THEN n + 1 ELSE n)
    ELSE n

calculateWorkingDays_swapped(s, e, offs) ==
    IF After(s, e) THEN WorkingDaysLoop(e, s, offs, 0) ELSE WorkingDaysLoop(s, e, offs, 0)

calculateWorkingDays(s, e, offs) == WorkingDaysLoop(s, e, offs, 0)

\* A call with the same range and one more exclusion interval.
CallWithDayOff(off) ==
    /\ Len(daysOff) < MaxOff
    /\ daysOff' = Append(daysOff, off)
    /\ workingDays' = calculateWorkingDays(start, end, Append(daysOff, off))
    /\ UNCHANGED <<otherVars, start, end, baseline, sprintsVars, developersVars, lookupVars, storiesVars>>

----------------------------------------------------------------------------
(* /developers, from the resolved iteration on *)

\* Lines 664-675: devMap after the tasks from number k on; an empty
\* AssignedTo (name 0) is skipped.
RECURSIVE CountTasks_overwrite(_, _, _)
CountTasks_overwrite(ts, k, devMap) ==
    IF k > Len(ts)
    THEN devMap
    ELSE LET assignedTo == ts[k]
         IN CountTasks_overwrite(ts, k + 1,
                IF assignedTo = 0
                THEN devMap
                ELSE IF assignedTo \in DOMAIN devMap
                     THEN [devMap EXCEPT ![assignedTo] = 1]
                     ELSE devMap @@ (assignedTo :> 1))

RECURSIVE CountTasks(_, _, _)
CountTasks(ts, k, devMap) ==
    IF k > Len(ts)
    THEN devMap
    ELSE LET assignedTo == ts[k]
         IN CountTasks(ts, k + 1,
                IF assignedTo = 0
                THEN devMap
                ELSE IF assignedTo \in DOMAIN devMap
                     THEN [devMap EXCEPT ![assignedTo] = @ + 1]
                     ELSE devMap @@ (assignedTo :> 1))

DefaultCapacities_none(devMap) == <<>>

\* Lines 684-697: every developer of devMap gets the default capacity.
DefaultCapacities(devMap) ==
    [name \in DOMAIN devMap |->
        [Activities |-> <<[CapacityPerDay |-> DefaultCapacityPerDay, Name |-> "Desenvolvimento"]>>,
         DaysOff |-> <<>>]]

RECURSIVE SumCapacityPerDay(_, _)
SumCapacityPerDay(activities, k) ==
    IF k > Len(activities)
    THEN 0
    ELSE activities[k].CapacityPerDay + SumCapacityPerDay(activities, k + 1)

BuildDeveloper_average(name, devMap, devCapacities, sprintStart, sprintEnd) ==
    IF name \in DOMAIN devCapacities
    THEN LET capacity == devCapacities[name]
             perDay == SumCapacityPerDay(capacity.Activities, 1) \div Len(capacity.Activities)
             days == calculateWorkingDays(sprintStart, sprintEnd, capacity.DaysOff)
         IN [Name |-> name, Tasks |-> devMap[name], CapacityPerDay |-> perDay,
             DaysOff |-> Len(capacity.DaysOff), TotalCapacity |-> days * perDay]
    ELSE [Name |-> name, Tasks |-> devMap[name], CapacityPerDay |-> 0,
          DaysOff |-> 0, TotalCapacity |-> 0]

BuildDeveloper_daysOffInDays(name, devMap, devCapacities, sprintStart, sprintEnd) ==
    IF name \in DOMAIN devCapacities
    THEN LET capacity == devCapacities[name]
             perDay == SumCapacityPerDay(capacity.Activities, 1)
             days == calculateWorkingDays(sprintStart, sprintEnd, capacity.DaysOff)
         IN [Name |-> name, Tasks |-> devMap[name], CapacityPerDay |-> perDay,
             DaysOff |-> calculateWorkingDays(sprintStart, sprintEnd, <<>>) - days,
             TotalCapacity |-> days * perDay]
    ELSE [Name |-> name, Tasks |-> devMap[name], CapacityPerDay |-> 0,
          DaysOff |-> 0, TotalCapacity |-> 0]

\* Lines 708-729: the Developer built for one entry of devMap.
BuildDeveloper(name, devMap, devCapacities, sprintStart, sprintEnd) ==
    IF name \in DOMAIN devCapacities
    THEN LET capacity == devCapacities[name]
             perDay == SumCapacityPerDay(capacity.Activities, 1)
             days == calculateWorkingDays(sprintStart, sprintEnd, capacity.DaysOff)
         IN [Name |-> name, Tasks |-> devMap[name], CapacityPerDay |-> perDay,
             DaysOff |-> Len(capacity.DaysOff), TotalCapacity |-> days * perDay]
    ELSE [Name |-> name, Tasks |-> devMap[name], CapacityPerDay |-> 0,
          DaysOff |-> 0, TotalCapacity |-> 0]

\* The orders in which a map with these keys can be ranged over.
MapOrders(keys) ==
    {o \in [1..Cardinality(keys) -> keys] :
        \A i, j \in 1..Cardinality(keys) : i # j => o[i] # o[j]}

\* sort.Slice by Name, lines 733-735.
RECURSIVE InsertByName(_, _)
InsertByName(sorted, d) ==
    IF sorted = <<>>
    THEN <<d>>
    ELSE IF d.Name < Head(sorted).Name
         THEN <<d>> \o sorted
         ELSE <<Head(sorted)>> \o InsertByName(Tail(sorted), d)

SortByName_unsorted(ds) == ds

RECURSIVE SortByName(_)
SortByName(ds) ==
    IF ds = <<>> THEN <<>> ELSE InsertByName(SortByName(Tail(ds)), Head(ds))

RECURSIVE SumField(_, _)
SumField(ds, field) ==
    IF ds = <<>> THEN 0 ELSE Head(ds)[field] + SumField(Tail(ds), field)

SprintWorkingDays_insideLoop(sprintStart, sprintEnd, developers) ==
    IF developers = <<>> THEN 0 ELSE calculateWorkingDays(sprintStart, sprintEnd, <<>>)

\* Line 739: response.WorkingDays, computed after the developers loop.
SprintWorkingDays(sprintStart, sprintEnd, developers) ==
    calculateWorkingDays(sprintStart, sprintEnd, <<>>)

\* Upstream resolves the sprint name to an iteration with these attributes.
SetTargetIteration(hasAttr, s, f) ==
    /\ targetIteration' = Iteration(1, hasAttr, IF hasAttr THEN s ELSE 0,
                                    IF hasAttr THEN f ELSE 0)
    /\ developersResponse' = NoResponse
    /\ UNCHANGED <<otherVars, tasks, sprintsVars, calcVars, lookupVars, storiesVars>>

\* Upstream holds one more task, assigned to `assignedTo` (0: nobody).
AddTask(assignedTo) ==
    /\ Len(tasks) < MaxTasks
    /\ tasks' = Append(tasks, assignedTo)
    /\ developersResponse' = NoResponse
    /\ UNCHANGED <<otherVars, targetIteration, sprintsVars, calcVars, lookupVars, storiesVars>>

\* The /developers handler, lines 562-742.
HandleDevelopers ==
    /\ developersResponse = NoResponse
    /\ LET sprintStart == IF targetIteration.Attributes THEN targetIteration.StartDate ELSE 0
           sprintEnd == IF targetIteration.Attributes THEN targetIteration.FinishDate ELSE 0
           devMap == CountTasks(tasks, 1, <<>>)
           devCapacities == DefaultCapacities(devMap)
       IN \E order \in MapOrders(DOMAIN devMap) :
              LET developers == SortByName(
                      [i \in 1..Len(order) |->
                          BuildDeveloper(order[i], devMap, devCapacities, sprintStart, sprintEnd)])
              IN developersResponse' =
                     [status |-> "ok",
                      Developers |-> developers,
                      SprintStart |-> sprintStart,
                      SprintEnd |-> sprintEnd,
                      TotalCapacity |-> SumField(developers, "TotalCapacity"),
                      TotalDaysOff |-> SumField(developers, "DaysOff"),
                      WorkingDays |-> SprintWorkingDays(sprintStart, sprintEnd, developers)]
    /\ UNCHANGED <<otherVars, targetIteration, tasks, sprintsVars, calcVars, lookupVars, storiesVars>>

----------------------------------------------------------------------------
(* /user-stories and /developers: the sprint lookup *)

\* Lines 319-324 and 550-555, from iteration number k on: the number of
\* the first iteration whose name is sprintName, 0 when the loop ends
\* with targetIteration nil, -1 when *iteration.Name dereferences nil.
RECURSIVE FindSprint(_, _, _)
FindSprint(its, k, name) ==
    IF k > Len(its)
    THEN 0
    ELSE IF its[k].Name = 0
         THEN -1
         ELSE IF its[k].Name = name
              THEN k
              ELSE FindSprint(its, k + 1, name)

\* Lines 293-329 and 526-560: sprint name 0 is the empty parameter.
\* queried tells whether the handler goes on to GetIterationWorkItems.
LookupSprint(its, name) ==
    IF name = 0
    THEN [status |-> "400", index |-> 0, queried |-> FALSE]
    ELSE LET k == FindSprint(its, 1, name)
         IN IF k = -1 THEN [status |-> "panic", index |-> 0, queried |-> FALSE]
            ELSE IF k = 0 THEN [status |-> "404", index |-> 0, queried |-> FALSE]
            ELSE [status |-> "resolved", index |-> k, queried |-> TRUE]

\* Upstream holds one more iteration, of any name (0: no name).
UpstreamIteration(name, hasAttr, s, f) ==
    /\ Len(iterations) < MaxLookup
    /\ iterations' = Append(iterations,
           Iteration(name, hasAttr, IF hasAttr THEN s ELSE 0, IF hasAttr THEN f ELSE 0))
    /\ lookupResponse' = NoResponse
    /\ UNCHANGED <<otherVars, now, allSprints, currentSprintIndex, sprintsResponse, sprintsJSON,
                   sprintName, calcVars, developersVars, storiesVars>>

\* A request arrives with this sprint parameter.
RequestSprint(name) ==
    /\ sprintName' = name
    /\ lookupResponse' = NoResponse
    /\ UNCHANGED <<otherVars, sprintsVars, calcVars, developersVars, storiesVars>>

\* The head of the /user-stories and of the /developers handler, up to
\* the resolved targetIteration.
ResolveSprint(handler) ==
    /\ lookupResponse = NoResponse
    /\ LET r == LookupSprint(iterations, sprintName)
       IN /\ lookupResponse' = [handler |-> handler, status |-> r.status,
                                index |-> r.index, queried |-> r.queried]
          /\ targetIteration' = IF r.status = "resolved"
                                THEN iterations[r.index] ELSE targetIteration
    /\ UNCHANGED <<otherVars, sprintName, tasks, developersResponse, sprintsVars, calcVars, storiesVars>>

----------------------------------------------------------------------------
(* parseDate *)

\* A date string is a sequence of tokens: a numeral of d digits and value
\* v, or a piece of text (a separator, a month name, anything else).
Num(d, v) == [k |-> "num", d |-> d, v |-> v, s |-> ""]
Lit(s) == [k |-> "lit", d |-> 0, v |-> 0, s |-> s]

\* The layouts of lines 125-135, element by element, in their order.
layouts ==
    << <<"2006", "-", "01", "-", "02", "T", "15", ":", "04", ":", "05", "Z">>,
       <<"2006", "-", "01", "-", "02", "T", "15", ":", "04", ":", "05">>,
       <<"2006", "-", "01", "-", "02", "T", "15", ":", "04", ":", "05", "-07:00">>,
       <<"2006", "-", "01", "-", "02">>,
       <<"02", "/", "01", "/", "2006", " ", "15", ":", "04">>,
       <<"02", "/", "01", "/", "2006">>,
       <<"1", "/", "2", "/", "2006">>,
       <<"January", " ", "2", ",", " ", "2006">>,
       <<"2006", "/", "01", "/", "02">> >>

\* time.RFC3339, line 145.
RFC3339 == <<"2006", "-", "01", "-", "02", "T", "15", ":", "04", ":", "05", "Z07:00">>

MonthNumber ==
    [n \in {"January", "February", "March", "April", "May", "June", "July", "August",
            "September", "October", "November", "December"} |->
        CASE n = "January" -> 1 [] n = "February" -> 2 [] n = "March" -> 3
          [] n = "April" -> 4 [] n = "May" -> 5 [] n = "June" -> 6
          [] n = "July" -> 7 [] n = "August" -> 8 [] n = "September" -> 9
          [] n = "October" -> 10 [] n = "November" -> 11 [] n = "December" -> 12]

DaysIn(month, year) ==
    IF month = 2
    THEN IF year % 4 = 0 /\ (year % 100 # 0 \/ year % 400 = 0) THEN 29 ELSE 28
    ELSE IF month \in {4, 6, 9, 11} THEN 30 ELSE 31

ZeroFields ==
    [ok |-> TRUE, year |-> 0, month |-> 1, day |-> 1, hour |-> 0, min |-> 0, sec |-> 0,
     zone |-> 0]

\* How many tokens of str, from token j on, the layout element e takes and
\* what it sets; ok is FALSE when the element rejects the text.  A numeric
\* element takes one numeral: exactly two digits for 01 02 04 05, one or two
\* for 1 2 15, four for 2006; a fraction of a second may follow 05.
ParseElement(e, str, j, acc) ==
    LET has(n) == j + n - 1 <= Len(str)
        num(n) == has(n + 1) /\ str[j + n].k = "num"
        lit(n, t) == has(n + 1) /\ str[j + n].k = "lit" /\ str[j + n].s = t
        bad == [acc EXCEPT !.ok = FALSE]
        take(n, f, v) == [fields |-> [acc EXCEPT ![f] = v], next |-> j + n]
        fail == [fields |-> bad, next |-> j]
    IN CASE e = "2006" ->
              IF num(0) /\ str[j].d = 4 THEN take(1, "year", str[j].v) ELSE fail
         [] e = "01" ->
              IF num(0) /\ str[j].d = 2 /\ str[j].v \in 1..12
              THEN take(1, "month", str[j].v) ELSE fail
         [] e = "1" ->
              IF num(0) /\ str[j].d \in {1, 2} /\ str[j].v \in 1..12
              THEN take(1, "month", str[j].v) ELSE fail
         [] e = "02" ->
              IF num(0) /\ str[j].d = 2 /\ str[j].v \in 1..31
              THEN take(1, "day", str[j].v) ELSE fail
         [] e = "2" ->
              IF num(0) /\ str[j].d \in {1, 2} /\ str[j].v \in 1..31
              THEN take(1, "day", str[j].v) ELSE fail
         [] e = "15" ->
              IF num(0) /\ str[j].d \in {1, 2} /\ str[j].v \in 0..23
              THEN take(1, "hour", str[j].v) ELSE fail
         [] e = "04" ->
              IF num(0) /\ str[j].d = 2 /\ str[j].v \in 0..59
              THEN take(1, "min", str[j].v) ELSE fail
         [] e = "05" ->
              IF num(0) /\ str[j].d = 2 /\ str[j].v \in 0..59
              THEN IF lit(1, ".") /\ num(2)
                   THEN take(3, "sec", str[j].v)
                   ELSE take(1, "sec", str[j].v)
              ELSE fail
         [] e = "January" ->
              IF has(1) /\ str[j].k = "lit" /\ str[j].s \in DOMAIN MonthNumber
              THEN take(1, "month", MonthNumber[str[j].s]) ELSE fail
         [] e \in {"-07:00", "Z07:00"} ->
              IF e = "Z07:00" /\ lit(0, "Z")
              THEN take(1, "zone", 0)
              ELSE IF (lit(0, "+") \/ lit(0, "-")) /\ num(1) /\ str[j + 1].d = 2
                       /\ lit(2, ":") /\ num(3) /\ str[j + 3].d = 2
                   THEN take(4, "zone",
                             (IF str[j].s = "-" THEN -1 ELSE 1)
                                 * (str[j + 1].v * 60 + str[j + 3].v))
                   ELSE fail
         [] OTHER ->
              IF lit(0, e) THEN [fields |-> acc, next |-> j + 1] ELSE fail

\* time.Parse(layout, str) from element i and token j on: text left over
\* and a day the month does not have are errors.
RECURSIVE ParseFrom(_, _, _, _, _)
ParseFrom(layout, i, str, j, acc) ==
    IF i > Len(layout)
    THEN [acc EXCEPT !.ok = j > Len(str) /\ acc.day <= DaysIn(acc.month, acc.year)]
    ELSE LET r == ParseElement(layout[i], str, j, acc)
         IN IF r.fields.ok
            THEN ParseFrom(layout, i + 1, str, r.next, r.fields)
            ELSE r.fields

Parse(layout, str) == ParseFrom(layout, 1, str, 1, ZeroFields)

\* Lines 137-149 from layout number i on: the first layout that parses
\* wins, then RFC3339, then the error.
RECURSIVE TryLayouts(_, _)
TryLayouts(str, i) ==
    IF i > Len(layouts)
    THEN IF Parse(RFC3339, str).ok
         THEN [status |-> "ok", err |-> FALSE, layout |-> Len(layouts) + 1,
               t |-> Parse(RFC3339, str)]
         ELSE [status |-> "ok", err |-> TRUE, layout |-> 0, t |-> ZeroFields]
    ELSE IF Parse(layouts[i], str).ok
         THEN [status |-> "ok", err |-> FALSE, layout |-> i, t |-> Parse(layouts[i], str)]
         ELSE TryLayouts(str, i + 1)

parseDate_lastMatch(str) ==
    LET accepting == {i \in 1..Len(layouts) : Parse(layouts[i], str).ok}
    IN IF accepting = {}
       THEN TryLayouts(str, Len(layouts) + 1)
       ELSE LET i == CHOOSE x \in accepting : \A y \in accepting : y <= x
            IN [status |-> "ok", err |-> FALSE, layout |-> i, t |-> Parse(layouts[i], str)]

parseDate(str) == TryLayouts(str, 1)

\* A call of parseDate on dateStr.
CallParseDate ==
    /\ parsed = NoResponse
    /\ parsed' = parseDate(dateStr)
    /\ UNCHANGED <<otherVars, dateStr, workItems, storiesResponse, sprintsVars, calcVars,
                   developersVars, lookupVars>>

----------------------------------------------------------------------------
(* /user-stories, from the work items on *)

\* getFieldValue, lines 77-101.  fields maps a field name to its value; a
\* value is [kind, s] where s is the text the function returns for it: the
\* string itself, the displayName or value of a map, or the %v rendering
\* of anything else ("<nil>" for a null).  A nil map or a missing key
\* gives the empty string.
getFieldValue(fields, fieldName) ==
    IF fieldName \in DOMAIN fields THEN fields[fieldName].s ELSE <<>>

\* Lines 402-406.
dateFields ==
    <<"Microsoft.VSTS.Scheduling.DueDate", "Microsoft.VSTS.Scheduling.TargetDate",
      "Microsoft.VSTS.Common.DueDate">>

\* Lines 408-415, from field number k on: the value of the first date
\* field that is not empty, the empty string when there is none.
RECURSIVE FirstDateStr(_, _)
FirstDateStr(fields, k) ==
    IF k > Len(dateFields)
    THEN <<>>
    ELSE IF getFieldValue(fields, dateFields[k]) # <<>>
         THEN getFieldValue(fields, dateFields[k])
         ELSE FirstDateStr(fields, k + 1)

NilDate == [nil |-> TRUE, t |-> ZeroFields]

\* Lines 387-427: the WorkItem built for a User Story.
StoryItem(detail) ==
    LET dueDateStr == FirstDateStr(detail.Fields, 1)
    IN [ID |-> detail.Id,
        Type |-> getFieldValue(detail.Fields, "System.WorkItemType"),
        DueDate |-> IF dueDateStr # <<>> /\ ~parseDate(dueDateStr).err
                    THEN [nil |-> FALSE, t |-> parseDate(dueDateStr).t]
                    ELSE NilDate]

AppendStory_dropUnparsed(result, detail) ==
    IF getFieldValue(detail.Fields, "System.WorkItemType") = <<Lit("User Story")>>
        /\ (FirstDateStr(detail.Fields, 1) = <<>> \/ ~StoryItem(detail).DueDate.nil)
    THEN Append(result, StoryItem(detail))
    ELSE result

\* Lines 383-430: one pass of the loop over the work items.
AppendStory(result, detail) ==
    IF getFieldValue(detail.Fields, "System.WorkItemType") = <<Lit("User Story")>>
    THEN Append(result, StoryItem(detail))
    ELSE result

RECURSIVE StoriesLoop(_, _, _)
StoriesLoop(items, k, result) ==
    IF k > Len(items)
    THEN result
    ELSE StoriesLoop(items, k + 1, AppendStory(result, items[k]))

\* GetWorkItems returns one more work item, numbered by its position.
AddWorkItem(fields) ==
    /\ Len(workItems) < MaxItems
    /\ workItems' = Append(workItems, [Id |-> Len(workItems) + 1, Fields |-> fields])
    /\ storiesResponse' = NoResponse
    /\ UNCHANGED <<otherVars, dateStr, parsed, sprintsVars, calcVars, developersVars, lookupVars>>

\* The /user-stories handler, lines 360-439.
HandleUserStories ==
    /\ storiesResponse = NoResponse
    /\ storiesResponse' = [status |-> "ok", body |-> StoriesLoop(workItems, 1, <<>>)]
    /\ UNCHANGED <<otherVars, dateStr, parsed, workItems, sprintsVars, calcVars, developersVars,
                   lookupVars>>

----------------------------------------------------------------------------
(* Concurrent /sprints and /developers requests *)

\* net/http runs every request in a goroutine of its own; requests[r] holds
\* the variables the handler closure declares in that invocation.  The
\* closures capture only connection, project and team, which no handler
\* assigns, and the package declares no variables.
Reqs == 1..MaxReq

NoLocals ==
    [handler |-> "none", pc |-> "idle", k |-> 0, allSprints |-> <<>>,
     currentSprintIndex |-> -1, devMap |-> <<>>, devCapacities |-> <<>>,
     response |-> NoResponse]

NoRequests == requests = [r \in Reqs |-> NoLocals]

DevMapOf_processWide(reqs, r) == reqs[1].devMap

\* Line 601, devMap := make(map[string]*Developer): the map an invocation
\* counts into is the one it made itself.
DevMapOf(reqs, r) == reqs[r].devMap

\* A request arrives: the handler's declarations up to its first loop,
\* lines 214-215 for /sprints and 601 for /developers.
StartRequest(r, handler) ==
    /\ requests[r].pc = "idle"
    /\ requests' = [requests EXCEPT ![r] = [NoLocals EXCEPT !.handler = handler,
                                                            !.pc = "loop"]]
    /\ UNCHANGED <<pageVars, sprintsVars, calcVars, developersVars, lookupVars, storiesVars>>

\* /sprints, one pass of the loop of lines 219-253.
SprintsStep(r) ==
    /\ requests[r].handler = "sprints"
    /\ requests[r].pc = "loop"
    /\ requests[r].k < Len(iterations)
    /\ LET acc == ScanStep([allSprints |-> requests[r].allSprints,
                            currentSprintIndex |-> requests[r].currentSprintIndex],
                           requests[r].k, iterations[requests[r].k + 1], now)
       IN requests' = [requests EXCEPT ![r].allSprints = acc.allSprints,
                                       ![r].currentSprintIndex = acc.currentSprintIndex,
                                       ![r].k = @ + 1]
    /\ UNCHANGED <<pageVars, sprintsVars, calcVars, developersVars, lookupVars, storiesVars>>

\* /sprints, lines 255-282: the window is cut and answered.
SprintsRespond(r) ==
    /\ requests[r].handler = "sprints"
    /\ requests[r].pc = "loop"
    /\ requests[r].k = Len(iterations)
    /\ requests' = [requests EXCEPT
           ![r].response = IF Len(iterations) > 0
                           THEN FilterSprints(requests[r].allSprints,
                                              requests[r].currentSprintIndex)
                           ELSE [status |-> "ok", body |-> <<>>],
           ![r].pc = "done"]
    /\ UNCHANGED <<pageVars, sprintsVars, calcVars, developersVars, lookupVars, storiesVars>>

\* /developers, one pass of the loop of lines 664-675: one task counted.
DevelopersStep(r) ==
    /\ requests[r].handler = "developers"
    /\ requests[r].pc = "loop"
    /\ requests[r].k < Len(tasks)
    /\ requests' = [requests EXCEPT
           ![r].devMap = CountTasks(<<tasks[requests[r].k + 1]>>, 1, DevMapOf(requests, r)),
           ![r].k = @ + 1]
    /\ UNCHANGED <<pageVars, sprintsVars, calcVars, developersVars, lookupVars, storiesVars>>

\* /developers, lines 681-697: devCapacities made and filled.
DevelopersCapacities(r) ==
    /\ requests[r].handler = "developers"
    /\ requests[r].pc = "loop"
    /\ requests[r].k = Len(tasks)
    /\ requests' = [requests EXCEPT
           ![r].devCapacities = DefaultCapacities(DevMapOf(requests, r)),
           ![r].pc = "build"]
    /\ UNCHANGED <<pageVars, sprintsVars, calcVars, developersVars, lookupVars, storiesVars>>

\* /developers, lines 699-742: the developers are built, sorted, summed
\* and answered.
DevelopersRespond(r) ==
    /\ requests[r].handler = "developers"
    /\ requests[r].pc = "build"
    /\ LET sprintStart == IF targetIteration.Attributes THEN targetIteration.StartDate ELSE 0
           sprintEnd == IF targetIteration.Attributes THEN targetIteration.FinishDate ELSE 0
           devMap == DevMapOf(requests, r)
       IN \E order \in MapOrders(DOMAIN devMap) :
              LET developers == SortByName(
                      [i \in 1..Len(order) |->
                          BuildDeveloper(order[i], devMap, requests[r].devCapacities,
                                         sprintStart, sprintEnd)])
              IN requests' = [requests EXCEPT
                     ![r].response =
                         [status |-> "ok",
                          Developers |-> developers,
                          SprintStart |-> sprintStart,
                          SprintEnd |-> sprintEnd,
                          TotalCapacity |-> SumField(developers, "TotalCapacity"),
                          TotalDaysOff |-> SumField(developers, "DaysOff"),
                          WorkingDays |-> SprintWorkingDays(sprintStart, sprintEnd, developers)],
                     ![r].pc = "done"]
    /\ UNCHANGED <<pageVars, sprintsVars, calcVars, developersVars, lookupVars, storiesVars>>

----------------------------------------------------------------------------
(* The page script (unnamed/part_001): sprint selection and the caches *)

\* Option values of sprintSelect: 0 is the empty value of "Selecione uma
\* Sprint", the others are sprint names.
Options == 0..MaxName

\* What /user-stories answers for a sprint: its stories, each known by
\* <<sprint, number>>.
StoriesOf(sprint) == [n \in 1..MaxStory |-> <<sprint, n>>]

AllStories == {<<sprint, n>> : sprint \in Options \ {0}, n \in 1..MaxStory}

\* Lines 10-13 and the DOMContentLoaded listener: empty caches, nothing
\* rendered, spinner hidden.
PageLoaded ==
    /\ selected = 0
    /\ userStoriesCache = <<>>
    /\ tasksCache = {}
    /\ expandedStories = {}
    /\ rendered = {}
    /\ open = {}
    /\ loading = FALSE
    /\ storyFetches = [sprint \in Options \ {0} |-> 0]
    /\ taskFetches = {}
    /\ storiesFailed = FALSE

\* Assigning storiesContainer.innerHTML replaces every card: the
\* tasksContainer a toggleTasks call holds across its await is no longer
\* in the document.
Detach(fetches) == {[f EXCEPT !.attached = FALSE] : f \in fetches}

\* The change listener of sprintSelect, lines 379-404, up to the await
\* inside loadUserStories (lines 203-206) for a sprint, whole for the
\* empty option.
SelectSprint(value) ==
    /\ value # selected
    /\ selected' = value
    /\ IF value # 0
       THEN /\ storyFetches[value] < MaxInFlight
            /\ loading' = TRUE
            /\ storyFetches' = [storyFetches EXCEPT ![value] = @ + 1]
            /\ UNCHANGED <<userStoriesCache, tasksCache, expandedStories, rendered, open,
                           taskFetches>>
       ELSE /\ rendered' = {}
            /\ open' = {}
            /\ userStoriesCache' = <<>>
            /\ tasksCache' = {}
            /\ expandedStories' = {}
            /\ taskFetches' = Detach(taskFetches)
            /\ UNCHANGED <<loading, storyFetches>>
    /\ UNCHANGED <<storiesFailed, requests, sprintsVars, calcVars, developersVars,
                   lookupVars, storiesVars>>

\* loadUserStories from its await on, lines 206-223: the answer of the
\* fetch for `sprint` arrives.  With ok the caches are replaced and the
\* stories rendered (filterAndDisplayStories, no card expanded since
\* expandedStories was cleared); otherwise showError replaces the cards
\* and only userStoriesCache is reset.
StoriesArrive(sprint, ok) ==
    /\ storyFetches[sprint] > 0
    /\ storyFetches' = [storyFetches EXCEPT ![sprint] = @ - 1]
    /\ loading' = FALSE
    /\ rendered' = IF ok THEN {StoriesOf(sprint)[n] : n \in 1..MaxStory} ELSE {}
    /\ open' = {}
    /\ taskFetches' = Detach(taskFetches)
    /\ userStoriesCache' = IF ok THEN StoriesOf(sprint) ELSE <<>>
    /\ tasksCache' = IF ok THEN {} ELSE tasksCache
    /\ expandedStories' = IF ok THEN {} ELSE expandedStories
    /\ storiesFailed' = (storiesFailed \/ ~ok)
    /\ UNCHANGED <<selected, requests, sprintsVars, calcVars, developersVars, lookupVars,
                   storiesVars>>

\* toggleTasks, lines 137-160, up to its await: a click on the button of a
\* rendered card while storiesContainer is shown.
ToggleTasks(story) ==
    /\ story \in rendered
    /\ ~loading
    /\ IF story \notin open
       THEN IF story \notin tasksCache
            THEN /\ taskFetches' = taskFetches \cup {[story |-> story, attached |-> TRUE]}
                 /\ UNCHANGED <<open, expandedStories>>
            ELSE /\ open' = open \cup {story}
                 /\ expandedStories' = expandedStories \cup {story}
                 /\ UNCHANGED taskFetches
       ELSE /\ open' = open \ {story}
            /\ expandedStories' = expandedStories \ {story}
            /\ UNCHANGED taskFetches
    /\ UNCHANGED <<selected, userStoriesCache, tasksCache, rendered, loading, storyFetches,
                   storiesFailed, requests, sprintsVars, calcVars, developersVars,
                   lookupVars, storiesVars>>

\* loadTasks from its await on, lines 122-134, and the rest of the
\* toggleTasks call that awaited it, lines 147-154: with ok the tasks are
\* cached; in both cases the story is added to expandedStories, and its
\* tasks container is shown if it is still in the document.
TasksArrive(f, ok) ==
    /\ f \in taskFetches
    /\ taskFetches' = taskFetches \ {f}
    /\ tasksCache' = IF ok THEN tasksCache \cup {f.story} ELSE tasksCache
    /\ expandedStories' = expandedStories \cup {f.story}
    /\ open' = IF f.attached THEN open \cup {f.story} ELSE open
    /\ UNCHANGED <<selected, userStoriesCache, rendered, loading, storyFetches,
                   storiesFailed, requests, sprintsVars, calcVars, developersVars,
                   lookupVars, storiesVars>>

\* The change listener of stateSelect, lines 406-410, with the filter left
\* at "Todos": filterAndDisplayStories renders userStoriesCache again.
FilterChange ==
    /\ rendered' = {userStoriesCache[n] : n \in 1..Len(userStoriesCache)}
    /\ open' = expandedStories \cap {userStoriesCache[n] : n \in 1..Len(userStoriesCache)}
    /\ taskFetches' = Detach(taskFetches)
    /\ UNCHANGED <<selected, userStoriesCache, tasksCache, expandedStories, loading,
                   storyFetches, storiesFailed, requests, sprintsVars, calcVars,
                   developersVars, lookupVars, storiesVars>>

----------------------------------------------------------------------------
(* Specifications *)

\* Iterations offered to the scan model: any combination of name,
\* attributes and dates.
Times == 0..MaxTime

\* Iterations offered to the window model, with now = 2: nameless, named
\* without attributes, named and running, named and starting right now.
WindowChoices ==
    {<<FALSE, FALSE, 0, 0>>, <<TRUE, FALSE, 0, 0>>, <<TRUE, TRUE, 1, 3>>, <<TRUE, TRUE, 2, 3>>}

Days == 0..MaxDay

MaxOffLen == 1

\* Exclusion intervals offered: up to MaxOffLen + 1 days long, or inverted.
DayOffs ==
    {DayOff(s, e) : s \in Days, e \in Days} \cap
    {DayOff(s, s + l) : s \in Days, l \in -1..MaxOffLen}

Names == 0..MaxDev

SprintNames == 0..MaxName

\* Attributes offered to the lookup model: none, or the dates 1 and 3.
LookupChoices == {<<FALSE, 0, 0>>, <<TRUE, 1, 3>>}

Idle ==
    /\ NoRequests
    /\ PageLoaded
    /\ iterations = <<>>
    /\ now = 2
    /\ allSprints = <<>>
    /\ currentSprintIndex = -1
    /\ sprintsResponse = NoResponse
    /\ sprintsJSON = "none"
    /\ sprintName = 0
    /\ lookupResponse = NoResponse
    /\ dateStr = <<>>
    /\ parsed = NoResponse
    /\ workItems = <<>>
    /\ storiesResponse = NoResponse
    /\ start = 0
    /\ end = 0
    /\ daysOff = <<>>
    /\ workingDays = calculateWorkingDays(0, 0, <<>>)
    /\ baseline = calculateWorkingDays(0, 0, <<>>)
    /\ targetIteration = Iteration(1, FALSE, 0, 0)
    /\ tasks = <<>>
    /\ developersResponse = NoResponse

\* /sprints with short lists and every date combination.
Init ==
    /\ NoRequests
    /\ PageLoaded
    /\ now \in 1..MaxTime
    /\ iterations = <<>>
    /\ allSprints = <<>>
    /\ currentSprintIndex = -1
    /\ sprintsResponse = NoResponse
    /\ sprintsJSON = "none"
    /\ sprintName = 0
    /\ lookupResponse = NoResponse
    /\ dateStr = <<>>
    /\ parsed = NoResponse
    /\ workItems = <<>>
    /\ storiesResponse = NoResponse
    /\ start = 0
    /\ end = 0
    /\ daysOff = <<>>
    /\ workingDays = calculateWorkingDays(0, 0, <<>>)
    /\ baseline = calculateWorkingDays(0, 0, <<>>)
    /\ targetIteration = Iteration(1, FALSE, 0, 0)
    /\ tasks = <<>>
    /\ developersResponse = NoResponse

Next ==
    \/ \E named, hasAttr \in BOOLEAN, s, f \in Times :
           AddIteration(named, hasAttr, s, f, MaxIter)
    \/ HandleSprints

Spec == Init /\ [][Next]_vars

\* /sprints with long lists.
InitWindow == Idle

NextWindow ==
    \/ \E c \in WindowChoices : AddIteration(c[1], c[2], c[3], c[4], MaxLong)
    \/ HandleSprints

SpecWindow == InitWindow /\ [][NextWindow]_vars

\* Calls of calculateWorkingDays: a first call on a range without
\* exclusions, then calls on the same range with one more exclusion each.
InitCalc ==
    /\ NoRequests
    /\ PageLoaded
    /\ iterations = <<>>
    /\ now = 2
    /\ allSprints = <<>>
    /\ currentSprintIndex = -1
    /\ sprintsResponse = NoResponse
    /\ sprintsJSON = "none"
    /\ sprintName = 0
    /\ lookupResponse = NoResponse
    /\ dateStr = <<>>
    /\ parsed = NoResponse
    /\ workItems = <<>>
    /\ storiesResponse = NoResponse
    /\ start \in Days
    /\ end \in Days
    /\ daysOff = <<>>
    /\ workingDays = calculateWorkingDays(start, end, <<>>)
    /\ baseline = calculateWorkingDays(start, end, <<>>)
    /\ targetIteration = Iteration(1, FALSE, 0, 0)
    /\ tasks = <<>>
    /\ developersResponse = NoResponse

NextCalc == \E off \in DayOffs : CallWithDayOff(off)

SpecCalc == InitCalc /\ [][NextCalc]_vars

\* /developers.
InitDevelopers == Idle

NextDevelopers ==
    \/ \E hasAttr \in BOOLEAN, s, f \in Days : SetTargetIteration(hasAttr, s, f)
    \/ \E a \in Names : AddTask(a)
    \/ HandleDevelopers

SpecDevelopers == InitDevelopers /\ [][NextDevelopers]_vars

\* Numerals offered as day and month: 4, 03, 04, 13, 31.
DayMonthNums == {Num(1, 4), Num(2, 3), Num(2, 4), Num(2, 13), Num(2, 31)}

YearNums == {Num(4, 2024), Num(2, 24)}

ClockTexts ==
    {<<Lit("T"), Num(2, 10), Lit(":"), Num(2, 30), Lit(":"), Num(2, 0)>>,
     <<Lit("T"), Num(2, 24), Lit(":"), Num(2, 30), Lit(":"), Num(2, 0)>>,
     <<Lit(" "), Num(2, 10), Lit(":"), Num(2, 30)>>}

ZoneTexts ==
    {<<>>, <<Lit("Z")>>, <<Lit("-"), Num(2, 3), Lit(":"), Num(2, 0)>>,
     <<Lit("+"), Num(2, 2), Lit(":"), Num(2, 0)>>,
     <<Lit("."), Num(3, 123), Lit("Z")>>, <<Lit("z")>>}

\* The strings given to parseDate: dates with - and / in either order of
\* the parts, with and without a clock and a zone, long English dates,
\* and text that is no date.
DateStrings ==
    {<<a, Lit(sep), b, Lit(sep), c>> :
        a \in DayMonthNums \cup YearNums, b \in DayMonthNums, c \in DayMonthNums \cup YearNums,
        sep \in {"-", "/"}}
    \cup {<<Num(4, 2024), Lit(sep), Num(2, 6), Lit(sep), Num(2, 3)>> \o c \o z :
              sep \in {"-", "/"}, c \in ClockTexts, z \in ZoneTexts}
    \cup {<<Num(2, 3), Lit("/"), Num(2, 6), Lit("/"), Num(4, 2024)>> \o c :
              c \in ClockTexts}
    \cup {<<Lit(m), Lit(" "), d, Lit(","), Lit(" "), Num(4, 2024)>> :
              m \in {"June", "February", "Junho"}, d \in DayMonthNums}
    \cup {<<>>, <<Lit("<nil>")>>, <<Lit("x")>>, <<Num(4, 2024)>>}

\* Calls of parseDate.
InitParse ==
    /\ NoRequests
    /\ PageLoaded
    /\ iterations = <<>>
    /\ now = 2
    /\ allSprints = <<>>
    /\ currentSprintIndex = -1
    /\ sprintsResponse = NoResponse
    /\ sprintsJSON = "none"
    /\ sprintName = 0
    /\ lookupResponse = NoResponse
    /\ dateStr \in DateStrings
    /\ parsed = NoResponse
    /\ workItems = <<>>
    /\ storiesResponse = NoResponse
    /\ start = 0
    /\ end = 0
    /\ daysOff = <<>>
    /\ workingDays = calculateWorkingDays(0, 0, <<>>)
    /\ baseline = calculateWorkingDays(0, 0, <<>>)
    /\ targetIteration = Iteration(1, FALSE, 0, 0)
    /\ tasks = <<>>
    /\ developersResponse = NoResponse

NextParse == CallParseDate

SpecParse == InitParse /\ [][NextParse]_vars

\* Values offered for the date fields: a date in a supported format, a
\* different one for each field (2024-06-03, 03/04/2024, June 4, 2024), or
\* a text that is no date.
DateValues ==
    [f \in {dateFields[k] : k \in 1..Len(dateFields)} |->
        {[kind |-> "string",
          s |-> IF f = dateFields[1]
                THEN <<Num(4, 2024), Lit("-"), Num(2, 6), Lit("-"), Num(2, 3)>>
                ELSE IF f = dateFields[2]
                     THEN <<Num(2, 3), Lit("/"), Num(2, 4), Lit("/"), Num(4, 2024)>>
                     ELSE <<Lit("June"), Lit(" "), Num(1, 4), Lit(","), Lit(" "),
                            Num(4, 2024)>>],
         [kind |-> "string", s |-> <<Lit("x")>>]}]

TypeValue(t) == [kind |-> "string", s |-> <<Lit(t)>>]

\* The field maps offered: a Task without dates, or a User Story with any
\* of the three date fields set.
FieldMaps ==
    {("System.WorkItemType" :> TypeValue("Task"))}
    \cup {[f \in {"System.WorkItemType"} \cup present |->
              IF f = "System.WorkItemType" THEN TypeValue("User Story") ELSE val[f]] :
              present \in SUBSET {dateFields[k] : k \in 1..Len(dateFields)},
              val \in {v \in [{dateFields[k] : k \in 1..Len(dateFields)} ->
                                  UNION {DateValues[f] : f \in DOMAIN DateValues}] :
                          \A f \in DOMAIN v : v[f] \in DateValues[f]}}

\* /user-stories.
InitStories == Idle

NextStories ==
    \/ \E fields \in FieldMaps : AddWorkItem(fields)
    \/ HandleUserStories

SpecStories == InitStories /\ [][NextStories]_vars

\* The sprint lookup of /user-stories and /developers.
InitLookup == Idle

NextLookup ==
    \/ \E name \in SprintNames, c \in LookupChoices :
           UpstreamIteration(name, c[1], c[2], c[3])
    \/ \E name \in SprintNames : RequestSprint(name)
    \/ \E handler \in {"user-stories", "developers"} : ResolveSprint(handler)

SpecLookup == InitLookup /\ [][NextLookup]_vars

\* Upstream data of the concurrent model: iteration lists with a nameless,
\* a current and a past iteration, and task lists over two developers.
UpstreamIterations ==
    {<<>>,
     <<Iteration(1, TRUE, 1, 3)>>,
     <<Iteration(0, TRUE, 1, 3), Iteration(2, TRUE, 1, 3)>>,
     <<Iteration(1, TRUE, 1, 1), Iteration(2, TRUE, 1, 3)>>}

UpstreamTasks == {<<>>, <<1>>, <<1, 2>>, <<2, 1>>, <<1, 0>>, <<2, 2>>}

\* Concurrent requests over fixed upstream data.
InitConcurrent ==
    /\ NoRequests
    /\ PageLoaded
    /\ iterations \in UpstreamIterations
    /\ now = 2
    /\ allSprints = <<>>
    /\ currentSprintIndex = -1
    /\ sprintsResponse = NoResponse
    /\ sprintsJSON = "none"
    /\ sprintName = 0
    /\ lookupResponse = NoResponse
    /\ dateStr = <<>>
    /\ parsed = NoResponse
    /\ workItems = <<>>
    /\ storiesResponse = NoResponse
    /\ start = 0
    /\ end = 0
    /\ daysOff = <<>>
    /\ workingDays = calculateWorkingDays(0, 0, <<>>)
    /\ baseline = calculateWorkingDays(0, 0, <<>>)
    /\ targetIteration = Iteration(1, TRUE, 1, 3)
    /\ tasks \in UpstreamTasks
    /\ developersResponse = NoResponse

NextConcurrent ==
    \E r \in Reqs :
        \/ \E handler \in {"sprints", "developers"} : StartRequest(r, handler)
        \/ SprintsStep(r)
        \/ SprintsRespond(r)
        \/ DevelopersStep(r)
        \/ DevelopersCapacities(r)
        \/ DevelopersRespond(r)

SpecConcurrent == InitConcurrent /\ [][NextConcurrent]_vars

\* The page, loaded, with the user selecting sprints and toggling cards
\* while fetches are answered in any order.
InitPage == Idle

NextPage ==
    \/ \E value \in Options : SelectSprint(value)
    \/ \E sprint \in Options \ {0}, ok \in BOOLEAN : StoriesArrive(sprint, ok)
    \/ \E story \in AllStories : ToggleTasks(story)
    \/ \E f \in taskFetches, ok \in BOOLEAN : TasksArrive(f, ok)
    \/ FilterChange

SpecPage == InitPage /\ [][NextPage]_vars


----------------------------------------------------------------------------
(* Properties of /sprints *)

Responded == sprintsResponse # NoResponse

Marked == {k \in 1..Len(allSprints) : allSprints[k].IsCurrent}

NamedIterations == SelectSeq(iterations, LAMBDA it : it.Name # 0)

Min(a, b) == IF a < b THEN a ELSE b
Max(a, b) == IF a > b THEN a ELSE b

\* C1: the handler never faults; if the scan marked an iteration current,
\* the window holds an iteration with IsCurrent = true; the window is a
\* contiguous, order-preserving slice of the named iterations.
C1_WindowHoldsCurrent ==
    Responded =>
        /\ sprintsResponse.status = "ok"
        /\ Marked # {} =>
               \E j \in 1..Len(sprintsResponse.body) : sprintsResponse.body[j].IsCurrent
        /\ \E lo \in 1..(Len(allSprints) + 1), hi \in 0..Len(allSprints) :
               sprintsResponse.body = SubSeq(allSprints, lo, hi)

\* C2: when an iteration is current, the window is the slice from three
\* before it to three after it, clipped to the list, around a current one.
C2_WindowAroundCurrent ==
    (Responded /\ Marked # {}) =>
        /\ sprintsResponse.status = "ok"
        /\ \E k \in Marked :
               sprintsResponse.body =
                   SubSeq(allSprints, Max(1, k - 3), Min(Len(allSprints), k + 3))

\* What the scan recorded for the named iteration it.
SprintOf(it) == CHOOSE sp \in {allSprints[k] : k \in 1..Len(allSprints)} : sp.Name = it.Name

C4_AtMostOneCurrent ==
    Responded =>
        /\ Cardinality(Marked) <= 1
        /\ Marked # {} =>
               LET first == CHOOSE k \in Marked : \A j \in Marked : k <= j
               IN /\ sprintsResponse.status = "ok"
                  /\ sprintsResponse.body =
                         SubSeq(allSprints, Max(1, first - 3), Min(Len(allSprints), first + 3))

\* The sprint the scan builds for a named iteration that is not current.
PlainSprint(it) ==
    [Name |-> it.Name, StartDate |-> it.StartDate, EndDate |-> it.FinishDate,
     IsCurrent |-> FALSE]

C6_WindowOfNamedList ==
    Responded =>
        LET acc == ScanLoop(NamedIterations, 0,
                       [allSprints |-> <<>>, currentSprintIndex |-> -1], now)
        IN /\ sprintsResponse.status = "ok"
           /\ \A j \in 1..Len(sprintsResponse.body) : sprintsResponse.body[j].Name # 0
           /\ sprintsResponse = FilterSprints(acc.allSprints, acc.currentSprintIndex)

----------------------------------------------------------------------------
(* Properties of /developers and calculateWorkingDays *)

\* C7: a sprint with an absent start date or an absent end date has
\* workingDays = 0, TotalCapacity = 0 for every developer and in total.
C7_AbsentDatesGiveZero ==
    (developersResponse # NoResponse
        /\ (developersResponse.SprintStart = 0 \/ developersResponse.SprintEnd = 0)) =>
        /\ developersResponse.status = "ok"
        /\ developersResponse.WorkingDays = 0
        /\ developersResponse.TotalCapacity = 0
        /\ \A i \in 1..Len(developersResponse.Developers) :
               developersResponse.Developers[i].TotalCapacity = 0

\* The days of start..end that are no Saturday or Sunday and lie in the
\* closed range of no exclusion.
CountedDays ==
    {d \in start..end :
        /\ d % 7 \notin {5, 6}
        /\ \A k \in 1..Len(daysOff) : ~(daysOff[k].Start <= d /\ d <= daysOff[k].End)}

\* C8: for start <= end the result is the number of days from start to end
\* inclusive that are weekdays outside every exclusion's closed range; a
\* Monday to the Friday of the next week gives 10, and 8 with the Monday
\* and Tuesday of the second week excluded.
C8_CountsWeekdaysOutsideExclusions ==
    /\ start <= end => workingDays = Cardinality(CountedDays)
    /\ calculateWorkingDays(7, 18, <<>>) = 10
    /\ calculateWorkingDays(7, 18, <<DayOff(14, 15)>>) = 8

C8_Witness ==
    /\ start < end
    /\ Len(daysOff) = 2
    /\ \E d \in start..end : d % 7 = 5
    /\ \E d \in start..end :
           /\ daysOff[1].Start <= d /\ d <= daysOff[1].End
           /\ daysOff[2].Start <= d /\ d <= daysOff[2].End
           /\ d % 7 \notin {5, 6}
    /\ workingDays > 0
    /\ workingDays < baseline

\* C9: for start > end the result is 0, whatever the exclusions.
C9_InvertedRangeIsZero == start > end => workingDays = 0

C9_Witness == start > end /\ Len(daysOff) > 0 /\ workingDays = 0

\* C10: adding an exclusion interval to the same range never raises the
\* result, and every result is between 0 and the result without exclusions.
C10_MonotoneInExclusions ==
    /\ [](0 <= workingDays /\ workingDays <= baseline)
    /\ [][(start' = start /\ end' = end /\ Len(daysOff') = Len(daysOff) + 1
            /\ SubSeq(daysOff', 1, Len(daysOff)) = daysOff)
          => workingDays' <= workingDays]_vars

C10_Witness ==
    /\ Len(daysOff) = 2
    /\ 0 < workingDays
    /\ workingDays < baseline
    /\ workingDays < calculateWorkingDays(start, end, SubSeq(daysOff, 1, 1))

----------------------------------------------------------------------------
(* Properties of the /developers roster *)

DevResponded == developersResponse # NoResponse

\* The weekdays of the closed range s..e.
Weekdays(s, e) == {d \in s..e : d % 7 \notin {5, 6}}

\* A capacity configuration of two activities of 4 hours and these exclusions.
TwoActivities(offs) ==
    (1 :> [Activities |-> <<[CapacityPerDay |-> 4, Name |-> "Desenvolvimento"],
                            [CapacityPerDay |-> 4, Name |-> "Suporte"]>>,
           DaysOff |-> offs])

\* C11: a developer's CapacityPerDay is the sum of the allocations of the
\* configured activities, and TotalCapacity is the working days of the
\* sprint outside the developer's exclusions times CapacityPerDay; 4h + 4h
\* with one exclusion over two weekdays of a 10-weekday sprint give 8 and 64.
C11_TotalCapacity ==
    /\ DevResponded =>
           \A i \in 1..Len(developersResponse.Developers) :
               LET d == developersResponse.Developers[i]
               IN /\ d.CapacityPerDay = 8
                  /\ d.TotalCapacity =
                         Cardinality(Weekdays(developersResponse.SprintStart,
                                              developersResponse.SprintEnd)) * d.CapacityPerDay
    /\ LET d == BuildDeveloper(1, (1 :> 3), TwoActivities(<<DayOff(14, 15)>>), 7, 18)
       IN d.CapacityPerDay = 8 /\ d.TotalCapacity = 64

C11_Witness ==
    /\ DevResponded
    /\ Len(developersResponse.Developers) = 2
    /\ developersResponse.SprintStart < developersResponse.SprintEnd
    /\ \E d \in developersResponse.SprintStart..developersResponse.SprintEnd : d % 7 = 5
    /\ developersResponse.Developers[1].TotalCapacity = 5 * 8

C13_WorkingDaysIsBaseline ==
    DevResponded =>
        developersResponse.WorkingDays =
            Cardinality(Weekdays(developersResponse.SprintStart, developersResponse.SprintEnd))

C13_Witness ==
    /\ DevResponded
    /\ developersResponse.Developers = <<>>
    /\ Len(tasks) > 0
    /\ developersResponse.WorkingDays > 1

\* C14: the roster is exactly the set of developers with at least one
\* assigned task, and each of them gets the default capacity: 8 hours a
\* day and no exclusions.
C14_RosterAndDefaults ==
    DevResponded =>
        /\ developersResponse.status = "ok"
        /\ {developersResponse.Developers[i].Name : i \in 1..Len(developersResponse.Developers)}
               = {tasks[k] : k \in 1..Len(tasks)} \ {0}
        /\ \A i \in 1..Len(developersResponse.Developers) :
               /\ developersResponse.Developers[i].CapacityPerDay = 8
               /\ developersResponse.Developers[i].DaysOff = 0
               /\ developersResponse.Developers[i].Tasks >= 1

C14_Witness ==
    /\ DevResponded
    /\ Len(developersResponse.Developers) = 1
    /\ \E k \in 1..Len(tasks) : tasks[k] = 0
    /\ \E n \in Names \ {0} : \A k \in 1..Len(tasks) : tasks[k] # n

\* C15: a developer name appears at most once in the result, its Tasks is
\* the number of tasks assigned to that name, and tasks with an empty
\* AssignedTo belong to no entry.
C15_OneEntryPerName ==
    DevResponded =>
        /\ \A i, j \in 1..Len(developersResponse.Developers) :
               i # j => developersResponse.Developers[i].Name # developersResponse.Developers[j].Name
        /\ \A i \in 1..Len(developersResponse.Developers) :
               LET d == developersResponse.Developers[i]
               IN /\ d.Name # 0
                  /\ d.Tasks = Cardinality({k \in 1..Len(tasks) : tasks[k] = d.Name})

C15_Witness ==
    /\ DevResponded
    /\ \E i \in 1..Len(developersResponse.Developers) :
           developersResponse.Developers[i].Tasks = 2
    /\ \E k \in 1..Len(tasks) : tasks[k] = 0

\* C16: the developers of the result are in ascending order of name,
\* whatever order the map was ranged over.
C16_SortedByName ==
    DevResponded =>
        \A i, j \in 1..Len(developersResponse.Developers) :
            i < j => developersResponse.Developers[i].Name < developersResponse.Developers[j].Name

C16_Witness ==
    /\ DevResponded
    /\ Len(developersResponse.Developers) = 2
    /\ tasks[1] > tasks[2]
    /\ tasks[2] # 0

----------------------------------------------------------------------------
(* Properties of the empty window and of the sprint lookup *)

\* C19: with no iteration, or with none left once the nameless ones are
\* removed, /sprints answers an empty list of sprints, none current, and
\* no error.
C19_EmptyListGivesEmptyWindow ==
    (Responded /\ NamedIterations = <<>>) =>
        /\ sprintsResponse.status = "ok"
        /\ sprintsResponse.body = <<>>
        /\ Marked = {}
        /\ sprintsJSON = "[]"

\* C20: both handlers answer 400 for an empty sprint parameter, 404 when no
\* iteration has the requested name, and otherwise resolve to the first
\* iteration of that name; no work-item query is issued before a 400 or 404.
C20_LookupStatus ==
    lookupResponse # NoResponse =>
        LET matches == {k \in 1..Len(iterations) : iterations[k].Name = sprintName}
        IN IF sprintName = 0
           THEN lookupResponse.status = "400" /\ ~lookupResponse.queried
           ELSE IF matches = {}
                THEN lookupResponse.status = "404" /\ ~lookupResponse.queried
                ELSE /\ lookupResponse.status = "resolved"
                     /\ \A k \in matches : lookupResponse.index <= k
                     /\ lookupResponse.index \in matches
                     /\ targetIteration = iterations[lookupResponse.index]

----------------------------------------------------------------------------
(* Properties of parseDate *)

\* The numbers of the patterns, RFC3339 being the last, that accept dateStr.
Accepting ==
    {i \in 1..(Len(layouts) + 1) :
        Parse(IF i <= Len(layouts) THEN layouts[i] ELSE RFC3339, dateStr).ok}

\* C17: parseDate returns the parse of the first pattern, in list order,
\* that accepts the string, and the error exactly when no pattern does.
C17_FirstMatchWins ==
    parsed # NoResponse =>
        /\ parsed.err <=> Accepting = {}
        /\ ~parsed.err =>
               /\ parsed.layout \in Accepting
               /\ \A i \in Accepting : parsed.layout <= i
               /\ parsed.t = Parse(IF parsed.layout <= Len(layouts)
                                   THEN layouts[parsed.layout] ELSE RFC3339, dateStr)

\* A string two patterns accept with different dates: 03/04/2024 is the
\* 3rd of April for 02/01/2006 and the 4th of March for 1/2/2006.
C17_Witness ==
    /\ parsed # NoResponse
    /\ ~parsed.err
    /\ \E i \in Accepting :
           /\ i > parsed.layout
           /\ i <= Len(layouts)
           /\ Parse(layouts[i], dateStr) # parsed.t
    /\ parsed.t.day = 3
    /\ parsed.t.month = 4

----------------------------------------------------------------------------
(* Properties of /user-stories *)

UserStories == SelectSeq(workItems,
    LAMBDA wi : wi.Fields["System.WorkItemType"].s = <<Lit("User Story")>>)

\* The date fields of a work item that hold a non-empty text, by number.
FilledDateFields(wi) ==
    {k \in 1..Len(dateFields) :
        dateFields[k] \in DOMAIN wi.Fields /\ wi.Fields[dateFields[k]].s # <<>>}

\* The text the handler reads the due date from: that of the first filled
\* date field.
DueText(wi) ==
    wi.Fields[dateFields[CHOOSE k \in FilledDateFields(wi) :
                             \A j \in FilledDateFields(wi) : k <= j]].s

Unrecognized(str) ==
    /\ \A i \in 1..Len(layouts) : ~Parse(layouts[i], str).ok
    /\ ~Parse(RFC3339, str).ok

\* C18: the request is answered with every User Story, in order; a story
\* whose due-date text parseDate does not recognize, or that has no
\* due-date field, is returned with DueDate nil, and the other stories
\* keep the date parsed from their own text.
C18_BadDateKeepsStory ==
    storiesResponse # NoResponse =>
        /\ storiesResponse.status = "ok"
        /\ Len(storiesResponse.body) = Len(UserStories)
        /\ \A i \in 1..Len(UserStories) :
               LET wi == UserStories[i]
                   item == storiesResponse.body[i]
               IN /\ item.ID = wi.Id
                  /\ IF FilledDateFields(wi) = {}
                     THEN item.DueDate.nil
                     ELSE IF Unrecognized(DueText(wi))
                          THEN item.DueDate.nil
                          ELSE /\ ~item.DueDate.nil
                               /\ \E l \in 1..Len(layouts) :
                                      /\ Parse(layouts[l], DueText(wi)).ok
                                      /\ \A m \in 1..(l - 1) :
                                             ~Parse(layouts[m], DueText(wi)).ok
                                      /\ item.DueDate.t = Parse(layouts[l], DueText(wi))

\* Two User Stories answered together: the first with a due-date text no
\* pattern accepts and DueDate nil, the second with its date parsed.
C18_Witness ==
    /\ storiesResponse # NoResponse
    /\ Len(storiesResponse.body) = 2
    /\ FilledDateFields(workItems[1]) # {}
    /\ Unrecognized(DueText(workItems[1]))
    /\ storiesResponse.body[1].DueDate.nil
    /\ ~storiesResponse.body[2].DueDate.nil

----------------------------------------------------------------------------
(* Properties of the due-date fallback *)

\* The date fields of a work item whose text some pattern accepts, by number.
SupportedDateFields(wi) ==
    {k \in FilledDateFields(wi) : ~Unrecognized(wi.Fields[dateFields[k]].s)}

\* C23: the first non-empty candidate field, in the order of dateFields,
\* supplies the text given to parseDate, and a story has a due date
\* whenever at least one candidate field holds a text in a supported format.
C23_AnySupportedFieldGivesDate ==
    storiesResponse # NoResponse /\ storiesResponse.status = "ok" =>
        \A i \in 1..Len(UserStories) :
            LET wi == UserStories[i]
                item == storiesResponse.body[i]
            IN /\ ~item.DueDate.nil =>
                      /\ FilledDateFields(wi) # {}
                      /\ item.DueDate.t = parseDate(DueText(wi)).t
               /\ SupportedDateFields(wi) # {} => ~item.DueDate.nil

----------------------------------------------------------------------------
(* Properties of concurrent requests *)

\* What /sprints answers when it runs alone on the upstream iterations.
SprintsAlone ==
    IF Len(iterations) > 0
    THEN LET acc == ScanLoop(iterations, 0,
                        [allSprints |-> <<>>, currentSprintIndex |-> -1], now)
         IN FilterSprints(acc.allSprints, acc.currentSprintIndex)
    ELSE [status |-> "ok", body |-> <<>>]

\* What /developers answers when it runs alone on the upstream tasks.
DevelopersAlone ==
    LET sprintStart == IF targetIteration.Attributes THEN targetIteration.StartDate ELSE 0
        sprintEnd == IF targetIteration.Attributes THEN targetIteration.FinishDate ELSE 0
        devMap == CountTasks(tasks, 1, <<>>)
        devCapacities == DefaultCapacities(devMap)
        order == CHOOSE o \in MapOrders(DOMAIN devMap) : TRUE
        developers == SortByName(
            [i \in 1..Len(order) |->
                BuildDeveloper(order[i], devMap, devCapacities, sprintStart, sprintEnd)])
    IN [status |-> "ok",
        Developers |-> developers,
        SprintStart |-> sprintStart,
        SprintEnd |-> sprintEnd,
        TotalCapacity |-> SumField(developers, "TotalCapacity"),
        TotalDaysOff |-> SumField(developers, "DaysOff"),
        WorkingDays |-> SprintWorkingDays(sprintStart, sprintEnd, developers)]

\* C21: whatever the interleaving of /sprints and /developers requests,
\* every answered request carries the response the handler gives when it
\* runs alone on the same upstream data, and while it runs its task
\* counts are those of the tasks it has counted itself.
C21_ResponseAsAlone ==
    \A r \in Reqs :
        /\ requests[r].handler = "developers" =>
               requests[r].devMap = CountTasks(SubSeq(tasks, 1, requests[r].k), 1, <<>>)
        /\ requests[r].pc = "done" =>
               requests[r].response = IF requests[r].handler = "sprints"
                                      THEN SprintsAlone
                                      ELSE DevelopersAlone

\* A /developers request has answered with developers while a /sprints
\* request is inside its loop, with a sprint already built.
C21_Witness ==
    \E r, q \in Reqs :
        /\ requests[r].handler = "developers"
        /\ requests[r].pc = "done"
        /\ Len(requests[r].response.Developers) = 2
        /\ requests[q].handler = "sprints"
        /\ requests[q].pc = "loop"
        /\ requests[q].k < Len(iterations)
        /\ requests[q].allSprints # <<>>

----------------------------------------------------------------------------
(* Properties of the page *)

AllFetchesDone ==
    /\ \A sprint \in Options \ {0} : storyFetches[sprint] = 0
    /\ taskFetches = {}

SelectedStories ==
    IF selected = 0 THEN {} ELSE {StoriesOf(selected)[n] : n \in 1..MaxStory}

\* C22: once every fetch has been answered (none of the /user-stories
\* fetches with an error), userStoriesCache holds the stories of the sprint
\* selected last, and tasksCache and expandedStories hold only stories of
\* that sprint.
C22_CachesFollowSelection ==
    AllFetchesDone /\ ~storiesFailed =>
        /\ selected # 0 => userStoriesCache = StoriesOf(selected)
        /\ tasksCache \subseteq SelectedStories
        /\ expandedStories \subseteq SelectedStories

====
